---- MODULE Spec2Model ----
(***************************************************************************)
(* A model of resume-builder: the keyword extraction worker (the scoring   *)
(* arbiter of src/main.rs), the per-url scrape tasks of main, the cache    *)
(* directory and the detached cache writes.                                *)
(***************************************************************************)
EXTENDS Naturals, Sequences, FiniteSets, TLC

\* ------------------------------------------------------------------ bounds
\* number of entries of config.job_requirement_websites
NumSources == 2
\* number of <li> lines a job posting description may hold
MaxLines == 2

Sources == 1 .. NumSources
\* A scrape makes at most one score request, so a process creates at most
\* one reply channel per source.
MaxChans == NumSources
ChanIds == 1 .. MaxChans

\* The texts of the <li> elements of a job posting.
Frags == {"Build APIs", "Use Rust"}

\* Vec<String>: the sequences of at most MaxLines lines.
FragSeqs == UNION {[1 .. n -> Frags] : n \in 0 .. MaxLines}

\* KeywordExtractionModel::predict on one line: its (text, score) candidates.
\* The model is a fixed function of its input.
Score(f) ==
    IF f = "Build APIs" THEN << [text |-> "api", score |-> 1] >>
    ELSE << [text |-> "rust", score |-> 2], [text |-> "api", score |-> 1] >>

\* KeywordExtractionModel::predict: one candidate list per input line, in order.
Predict(keywords) == [i \in 1 .. Len(keywords) |-> Score(keywords[i])]

\* A reply channel that mpsc::sync_channel(1) has not created yet.
NoChan == [buf |-> << >>, rx |-> FALSE, tx |-> FALSE]

\* --------------------------------------------------------------- the urls
\* The configured job_requirement_websites are drawn from these urls.
UrlWorkday == [host |-> "acme.myworkdaysite.com", path |-> << "recruiting", "acme", "job", "1" >>]
UrlOther == [host |-> "example.com", path |-> << "jobs", "2" >>]
UrlSimplify == [host |-> "simplify.jobs", path |-> << "p", "3" >>]
Urls == {UrlWorkday, UrlOther, UrlSimplify}

\* Url::to_string and str::parse::<Url>, as a table of the urls and their text.
UrlTable ==
    { << UrlWorkday, "https://acme.myworkdaysite.com/recruiting/acme/job/1" >>,
      << UrlOther, "https://example.com/jobs/2" >>,
      << UrlSimplify, "https://simplify.jobs/p/3" >> }
UrlToString(u) == (CHOOSE p \in UrlTable : p[1] = u)[2]
ParseUrl(str) == (CHOOSE p \in UrlTable : p[2] = str)[1]

\* main.rs:117-120  the cache file name: the FxHasher hash of the url, in
\* decimal. The hash is taken to be collision free on the configured urls.
HashTable ==
    { << UrlWorkday, "9714502301967693413" >>,
      << UrlOther, "1180405182428392672" >>,
      << UrlSimplify, "15339824863502850517" >> }
CachedFilePath(u) == (CHOOSE p \in HashTable : p[1] = u)[2]
Keys == {CachedFilePath(u) : u \in Urls}

\* str::contains on the host of a url, for the needles the scrapers use.
HostContains(host, needle) ==
    << host, needle >> \in { << "acme.myworkdaysite.com", "myworkdaysite.com" >>,
                             << "simplify.jobs", "simplify.jobs" >> }

\* page_scrapers/mod.rs:15 and the NAME of each scraper.
SimplifyName == "simplify"
WorkdayName == "workday"
DEFAULT_SCRAPERS == {SimplifyName, WorkdayName}

\* The html a fetch may return: the jobPostingHeader text and the <li> lines
\* of the jobPostingDescription, each an Option (<< >> is None).
Pages ==
    {[header |-> << >>, desc |-> << >>], [header |-> << "Engineer" >>, desc |-> << >>]}
    \cup {[header |-> << "Engineer" >>, desc |-> << l >>] : l \in FragSeqs}
NoPage == [header |-> << >>, desc |-> << >>]

\* ------------------------------------------------------------ keyword sets
\* FxHashSet<KeyWithData<String, f32>>: equality and hash are by key alone.
SetTake(set, key) == {e \in set : e.key = key}
SetInsert(set, k) == IF \E e \in set : e.key = k.key THEN set ELSE set \cup {k}

\* An accumulation that inserts the summed entry next to the one it found.
AddKeywordBeside(set, x) ==
    LET k == [key |-> x.text, data |-> x.score]
        old == SetTake(set, k.key)
    IN  IF old # {}
        THEN LET old_k == CHOOSE e \in old : TRUE
             IN  set \cup {[old_k EXCEPT !.data = @ + k.data]}
        ELSE SetInsert(set, k)

\* An accumulation that puts the new candidate in the place of the entry it
\* found.
AddKeywordReplace(set, x) ==
    LET k == [key |-> x.text, data |-> x.score]
        old == SetTake(set, k.key)
    IN  SetInsert(set \ old, k)

\* workday.rs:40-48  one (text, score) candidate added to the keyword set.
AddKeyword(set, x) ==
    LET k == [key |-> x.text, data |-> x.score]
        old == SetTake(set, k.key)
    IN  IF old # {}
        THEN LET old_k == CHOOSE e \in old : TRUE
             IN  SetInsert(set \ old, [old_k EXCEPT !.data = @ + k.data])
        ELSE SetInsert(set, k)

RECURSIVE Flatten(_)
\* workday.rs:37-39  the candidate lists of all lines, one after another.
Flatten(resp) == IF resp = << >> THEN << >> ELSE Head(resp) \o Flatten(Tail(resp))

RECURSIVE Accumulate(_, _)
\* workday.rs:40-48  for_each over the flattened candidates.
Accumulate(set, xs) ==
    IF xs = << >> THEN set ELSE Accumulate(AddKeyword(set, Head(xs)), Tail(xs))

\* workday.rs:17  path_segments().take(2).last()
CompanyOf(u) ==
    IF u.path = << >> THEN << >>
    ELSE << u.path[IF Len(u.path) < 2 THEN Len(u.path) ELSE 2] >>

\* workday.rs:16-50  the PageData the Workday scraper builds from the reply.
WorkdayData(u, h, resp) ==
    [keywords |-> Accumulate({}, Flatten(resp)), url |-> u,
     job_title |-> h.header[1], company |-> CompanyOf(u)[1]]

\* page_scrapers/mod.rs:183-185  ScraperState::create_page_data.
create_page_data(u) == [keywords |-> {}, url |-> u, job_title |-> "", company |-> ""]

\* ------------------------------------------------------- merging PageData
\* A merge whose loop body inserts without taking: FxHashSet::insert leaves
\* the entry the set already holds for that key.
AddEntryKeepSelf(keywords, other_k) == SetInsert(keywords, other_k)

\* A merge whose loop body skips the keys the left operand does not hold.
AddEntrySharedOnly(keywords, other_k) ==
    LET self_ks == SetTake(keywords, other_k.key)
    IN  IF self_ks # {}
        THEN LET self_k == CHOOSE e \in self_ks : TRUE
             IN  SetInsert(keywords \ self_ks, [self_k EXCEPT !.data = @ + other_k.data])
        ELSE keywords

\* page_scrapers/mod.rs:142-147  the body of the loop of add: take the entry
\* of self with the key of other_k and put it back with the weights summed,
\* or insert other_k.
AddEntry(keywords, other_k) ==
    LET self_ks == SetTake(keywords, other_k.key)
    IN  IF self_ks # {}
        THEN LET self_k == CHOOSE e \in self_ks : TRUE
             IN  SetInsert(keywords \ self_ks, [self_k EXCEPT !.data = @ + other_k.data])
        ELSE SetInsert(keywords, other_k)

RECURSIVE AddLoop(_, _)
\* page_scrapers/mod.rs:141-148  for other_k in rhs.keywords, in the order
\* the hash set yields its entries.
AddLoop(keywords, rest) ==
    IF rest = {} THEN keywords
    ELSE LET other_k == CHOOSE k \in rest : TRUE
         IN  AddLoop(AddEntry(keywords, other_k), rest \ {other_k})

\* page_scrapers/mod.rs:137-151  impl Add for PageData: self with the
\* keywords of rhs merged in; url, job_title and company stay those of self.
Add(self, rhs) == [self EXCEPT !.keywords = AddLoop(self.keywords, rhs.keywords)]

\* ------------------------------------------------------------ scrape_page!
\* What PageScraper::scrape returns, an Option<anyhow::Result<PageData>>.
ScrapeNone == [tag |-> "none", e |-> "", x |-> << >>]
ScrapeErr(e) == [tag |-> "err", e |-> e, x |-> << >>]
ScrapeOk(x) == [tag |-> "ok", e |-> "", x |-> << x >>]

\* page_scrapers/mod.rs:45-56  the arm for one scraper: a scraper that is
\* not enabled is not called; result is what the call returns.
scrape_page_one(name, enabled_scrapers, result) ==
    IF name \in enabled_scrapers
    THEN CASE result.tag = "none" -> [data |-> << >>, errs |-> << >>]
           [] result.tag = "err" -> [data |-> << >>, errs |-> << result.e >>]
           [] OTHER -> [data |-> result.x, errs |-> << >>]
    ELSE [data |-> << >>, errs |-> << >>]

\* page_scrapers/mod.rs:28-36  the data of the two sides of the join.
JoinData(data1, data2) ==
    IF data1 # << >>
    THEN IF data2 # << >> THEN << Add(data1[1], data2[1]) >> ELSE data1
    ELSE data2

\* Vec::capacity of the vectors an arm returns: vec![] and vec![e] allocate
\* what they hold.
Capacity(errs) == Len(errs)

\* An error merge that keeps only the list it appends to.
JoinErrsKeepOne(errs1, errs2) ==
    IF Capacity(errs1) > Capacity(errs2) THEN errs1 ELSE errs2

\* page_scrapers/mod.rs:37-42  the error lists: one is appended to the other.
JoinErrs(errs1, errs2) ==
    IF Capacity(errs1) > Capacity(errs2) THEN errs1 \o errs2 ELSE errs2 \o errs1

\* page_scrapers/mod.rs:19-44 and 82-84  scrape_page!(state, SimplifyScraper,
\* WorkdayScraper): both arms, then the join of what they returned.
scrape_page(enabled_scrapers, simplify, workday) ==
    LET r1 == scrape_page_one(SimplifyName, enabled_scrapers, simplify)
        r2 == scrape_page_one(WorkdayName, enabled_scrapers, workday)
    IN  [data |-> JoinData(r1.data, r2.data), errs |-> JoinErrs(r1.errs, r2.errs)]

\* page_scrapers/mod.rs:112-121 and 100-109  PageData <-> PageDataSerde.
ToSerde(d) ==
    [keywords |-> d.keywords, url |-> UrlToString(d.url),
     job_title |-> d.job_title, company |-> d.company]
FromSerde(v) ==
    [keywords |-> v.keywords, url |-> ParseUrl(v.url),
     job_title |-> v.job_title, company |-> v.company]

\* bitcode::encode / bitcode::decode of an Option<PageDataSerde>: a tag, then
\* the value. Decoding anything else is an error.
Encode(opt) == IF opt = << >> THEN << "tag0" >> ELSE << "tag1", opt[1] >>
DecodeOk(bytes) ==
    \/ bytes = << "tag0" >>
    \/ Len(bytes) = 2 /\ bytes[1] = "tag1"
Decode(bytes) == IF bytes = << "tag0" >> THEN << >> ELSE << bytes[2] >>

\* What a cache file may be: missing, there but unreadable, or its bytes.
Absent == [st |-> "absent", bytes |-> << >>]
Unreadable == [st |-> "unreadable", bytes |-> << >>]
File(bytes) == [st |-> "file", bytes |-> bytes]
CorruptBytes == << "garbage" >>
Tombstone == Encode(<< >>)
\* A result an earlier run may have left in the cache file of url u.
SampleData(u) ==
    [keywords |-> {[key |-> "api", data |-> 1]}, url |-> u,
     job_title |-> "Engineer", company |-> "acme"]
FileKinds == {"absent", "unreadable", "corrupt", "tombstone", "data"}
FileOf(kind, u) ==
    CASE kind = "absent" -> Absent
      [] kind = "unreadable" -> Unreadable
      [] kind = "corrupt" -> File(CorruptBytes)
      [] kind = "tombstone" -> File(Tombstone)
      [] OTHER -> File(Encode(<< ToSerde(SampleData(u)) >>))

\* The messages of the errors a task returns.
ErrRead == "Failed to read"
ErrDeserialize == "Failed to deserialize. Consider deleting it."
ErrFetch == "navigation failed"
ErrProcess == "Failed to process"
ErrPanic == "task panicked"
ErrCheck == "Failed to check if a website has been cached."
ErrTab == "Failed to start Headless Chrome."
NoErr == "none"

\* The state of the detached tokio::fs::write of one task.
NoWrite == [st |-> "none", bytes |-> << >>]

VARIABLES
    reqChan,     \* the mpsc channel of (Vec<String>, SyncSender) requests
    rcvAlive,    \* keyword_receiever has not been dropped
    senders,     \* number of live keyword_extractor_sender handles
    chans,       \* the reply channels: buffer, receiver alive, sender alive
    nextChan,    \* number of reply channels created so far
    workerPc,    \* position of the closure given to rayon::spawn
    workerCur,   \* the request the worker holds, << >> when none
    modelCount,  \* number of KeywordExtractionModel::new calls
    computing,   \* requests inside KeywordExtractionModel::predict
    invokers,    \* who has called predict
    enqLog,      \* reply channel ids in the order their requests were enqueued
    scoreLog,    \* reply channel ids in the order their requests were scored
    sentCount,   \* number of responses placed on each reply channel
    pc,          \* position of each caller / scrape task
    myChan,      \* the PendingKeywords each caller holds (0 when none)
    myReq,       \* the lines each caller sent
    got,         \* what PendingKeywords::get returned to each caller
    run,         \* which run of the program this is
    url,         \* config.job_requirement_websites
    enabled,     \* enabled_scrapers
    mainPc,      \* position of main: "for", "join", "exit_ok", "exit_err"
    mainErr,     \* the error main returned
    idx,         \* the next url of the for loop
    joined,      \* number of tasks join_next has returned
    finished,    \* the tasks that ended and join_next has not returned yet
    cache,       \* the files of .cache/, by file name
    cacheAtStart,\* the files of .cache/ when the run started
    html,        \* the html each task fetched
    err,         \* the error each failed task returned
    wr,          \* the detached cache write of each task
    emitted,     \* the PageData each task gave to use_page_data
    fetched,     \* number of navigations to each url
    prevOk,      \* the previous run printed "Resumes completed successfully!"
    prevEmitted, \* what the previous run, when it succeeded, gave to use_page_data
                 \* for the sources it left a cache file for
    opA,         \* a PageData: the left operand of a merge
    opB,         \* a PageData: the right operand of a merge
    opC,         \* a PageData: a third operand
    sum,         \* the PageData that PageData::add returned, << >> before it ran
    scr,         \* what scrape_page! returned for two scraper results, << >> before it ran
    poolSize     \* number of threads of the global rayon pool

chanVars == << reqChan, rcvAlive, chans, nextChan, enqLog >>
workVars == << workerPc, workerCur, modelCount, computing, invokers, scoreLog, sentCount >>
arbVars == << chanVars, workVars, senders >>
callerVars == << pc, myChan, myReq, got >>
mainVars == << run, url, enabled, mainPc, mainErr, idx, joined, finished >>
cacheVars == << cache, cacheAtStart >>
taskVars == << html, err, wr, emitted, fetched >>
prevVars == << prevOk, prevEmitted >>
algVars == << opA, opB, opC, sum, scr >>
poolVars == << poolSize >>
orchVars == << mainVars, cacheVars, taskVars, prevVars, algVars, poolVars >>
vars == << arbVars, callerVars, orchVars >>

\* ------------------------------------------------------- the scoring worker

\* main.rs:94  the worker builds the model before entering its loop.
WorkerInit ==
    /\ workerPc = "spawned"
    /\ workerPc' = "recv"
    /\ modelCount' = modelCount + 1
    /\ UNCHANGED << workerCur, computing, invokers, scoreLog, sentCount >>
    /\ UNCHANGED << chanVars, senders, callerVars, orchVars >>

\* Dropping the receiver drops every queued request, and with it the
\* SyncSender each one carries.
DropQueued(ch) ==
    [c \in ChanIds |->
        IF \E i \in 1 .. Len(reqChan) : reqChan[i].sender = c
        THEN [ch[c] EXCEPT !.tx = FALSE] ELSE ch[c]]

\* A receiver that hands out the newest request first.
PopNewest ==
    [req |-> reqChan[Len(reqChan)], rest |-> SubSeq(reqChan, 1, Len(reqChan) - 1)]

\* What mpsc::Receiver::recv hands out and leaves queued: the oldest request.
PopRequest == [req |-> Head(reqChan), rest |-> Tail(reqChan)]

\* A worker that builds a KeywordExtractionModel for every request.
WorkerRecvRebuild ==
    /\ workerPc = "recv"
    /\ reqChan # << >>
    /\ workerCur' = << PopRequest.req >>
    /\ reqChan' = PopRequest.rest
    /\ workerPc' = "predict"
    /\ computing' = computing \cup {PopRequest.req.sender}
    /\ invokers' = invokers \cup {"worker"}
    /\ scoreLog' = Append(scoreLog, PopRequest.req.sender)
    /\ modelCount' = modelCount + 1
    /\ UNCHANGED << rcvAlive, chans, nextChan, enqLog, sentCount >>
    /\ UNCHANGED << senders, callerVars, orchVars >>

\* A worker that leaves its loop as soon as it finds the channel empty.
WorkerRecvLeavesOnEmpty ==
    /\ workerPc = "recv"
    /\ IF reqChan # << >>
       THEN /\ workerCur' = << PopRequest.req >>
            /\ reqChan' = PopRequest.rest
            /\ workerPc' = "predict"
            /\ computing' = computing \cup {PopRequest.req.sender}
            /\ invokers' = invokers \cup {"worker"}
            /\ scoreLog' = Append(scoreLog, PopRequest.req.sender)
            /\ UNCHANGED rcvAlive
       ELSE /\ workerPc' = "exited"
            /\ rcvAlive' = FALSE
            /\ UNCHANGED << workerCur, reqChan, computing, invokers, scoreLog >>
    /\ UNCHANGED << chans, nextChan, enqLog, modelCount, sentCount >>
    /\ UNCHANGED << senders, callerVars, orchVars >>

\* main.rs:96  recv(): take the next request; Err once every Sender is
\* gone and the queue is empty, which leaves the loop.
WorkerRecv ==
    /\ workerPc = "recv"
    /\ IF reqChan # << >>
       THEN /\ workerCur' = << PopRequest.req >>
            /\ reqChan' = PopRequest.rest
            /\ workerPc' = "predict"
            /\ computing' = computing \cup {PopRequest.req.sender}
            /\ invokers' = invokers \cup {"worker"}
            /\ scoreLog' = Append(scoreLog, PopRequest.req.sender)
            /\ UNCHANGED rcvAlive
       ELSE /\ senders = 0
            /\ workerPc' = "exited"
            /\ rcvAlive' = FALSE
            /\ UNCHANGED << workerCur, reqChan, computing, invokers, scoreLog >>
    /\ UNCHANGED << chans, nextChan, enqLog, modelCount, sentCount >>
    /\ UNCHANGED << senders, callerVars, orchVars >>

\* A worker that replies on the reply channel created last.
ReplyTargetNewest(req) == nextChan

\* The SyncSender the worker replies on: the one that came with the request.
ReplyTarget(req) == req.sender

\* main.rs:97-99  predict, then send on the request's own SyncSender; a failed
\* send (receiver dropped) breaks out of the loop, which drops the receiver.
WorkerSend ==
    /\ workerPc = "predict"
    /\ LET req == workerCur[1]
           to == ReplyTarget(req)
           resp == Predict(req.keywords)
       IN  IF chans[to].rx
           THEN /\ chans' = [chans EXCEPT ![to].buf = Append(@, resp),
                                          ![req.sender].tx = FALSE]
                /\ sentCount' = [sentCount EXCEPT ![to] = @ + 1]
                /\ workerPc' = "recv"
                /\ UNCHANGED << reqChan, rcvAlive >>
           ELSE /\ chans' = [DropQueued(chans) EXCEPT ![req.sender].tx = FALSE]
                /\ workerPc' = "exited"
                /\ rcvAlive' = FALSE
                /\ reqChan' = << >>
                /\ UNCHANGED sentCount
    /\ workerCur' = << >>
    /\ computing' = computing \ {workerCur[1].sender}
    /\ UNCHANGED << nextChan, enqLog, modelCount, invokers, scoreLog >>
    /\ UNCHANGED << senders, callerVars, orchVars >>

\* ------------------------------------------------------------- the callers

\* page_scrapers/mod.rs:177-181  ScraperState::extract_keywords: a fresh
\* sync_channel(1), the request sent with its SyncSender (a failed send is
\* ignored and drops the request), the receiver returned as PendingKeywords.
extract_keywords(s, keywords) ==
    /\ nextChan < MaxChans
    /\ LET ch == nextChan + 1
       IN  /\ nextChan' = ch
           /\ myChan' = [myChan EXCEPT ![s] = ch]
           /\ myReq' = [myReq EXCEPT ![s] = keywords]
           /\ IF rcvAlive
              THEN /\ reqChan' = Append(reqChan, [keywords |-> keywords, sender |-> ch])
                   /\ chans' = [chans EXCEPT ![ch] = [buf |-> << >>, rx |-> TRUE, tx |-> TRUE]]
                   /\ enqLog' = Append(enqLog, ch)
              ELSE /\ chans' = [chans EXCEPT ![ch] = [buf |-> << >>, rx |-> TRUE, tx |-> FALSE]]
                   /\ UNCHANGED << reqChan, enqLog >>
    /\ UNCHANGED << rcvAlive, workVars, senders >>

\* page_scrapers/mod.rs:165-169  PendingKeywords::get: recv().unwrap() blocks
\* until the reply is there, and panics when the SyncSender is gone without one.
PendingGet(s) ==
    /\ pc[s] = "wait_reply"
    /\ LET ch == myChan[s]
       IN  IF chans[ch].buf # << >>
           THEN /\ got' = [got EXCEPT ![s] = << Head(chans[ch].buf) >>]
                /\ chans' = [chans EXCEPT ![ch].buf = Tail(@), ![ch].rx = FALSE]
                /\ pc' = [pc EXCEPT ![s] = "scraped"]
           ELSE /\ ~chans[ch].tx
                /\ chans' = [chans EXCEPT ![ch].rx = FALSE]
                /\ pc' = [pc EXCEPT ![s] = "panicked"]
                /\ UNCHANGED got
    /\ UNCHANGED << myChan, myReq >>
    /\ UNCHANGED << reqChan, rcvAlive, nextChan, enqLog, workVars, senders, orchVars >>

\* number of lines a caller of the arbiter on its own sends in a request
MaxCallLines == 1

\* The requests of the callers of the arbiter on its own.
CallLines == {l \in FragSeqs : Len(l) <= MaxCallLines}

\* A caller of ScraperState::extract_keywords with any lines.
ArbCall(s) ==
    /\ pc[s] = "scrape"
    /\ \E keywords \in CallLines : extract_keywords(s, keywords)
    /\ pc' = [pc EXCEPT ![s] = "wait_reply"]
    /\ UNCHANGED << got, orchVars >>

\* A caller that drops its PendingKeywords without calling get.
ArbDropPending(s) ==
    /\ pc[s] = "wait_reply"
    /\ chans' = [chans EXCEPT ![myChan[s]].rx = FALSE]
    /\ pc' = [pc EXCEPT ![s] = "dropped"]
    /\ UNCHANGED << myChan, myReq, got >>
    /\ UNCHANGED << reqChan, rcvAlive, nextChan, enqLog, workVars, senders, orchVars >>

\* A caller drops its ScraperState, and with it its Sender clone.
ArbDropState(s) ==
    /\ pc[s] \in {"scrape", "scraped", "dropped"}
    /\ pc' = [pc EXCEPT ![s] = "gone"]
    /\ senders' = senders - 1
    /\ UNCHANGED << myChan, myReq, got >>
    /\ UNCHANGED << chanVars, workVars, orchVars >>

\* The state of a process whose worker has just been spawned (main.rs:92-101).
ArbiterStart ==
    /\ reqChan = << >>
    /\ rcvAlive = TRUE
    /\ chans = [c \in ChanIds |-> NoChan]
    /\ nextChan = 0
    /\ workerPc = "spawned"
    /\ workerCur = << >>
    /\ modelCount = 0
    /\ computing = {}
    /\ invokers = {}
    /\ enqLog = << >>
    /\ scoreLog = << >>
    /\ sentCount = [c \in ChanIds |-> 0]
    /\ myChan = [s \in Sources |-> 0]
    /\ myReq = [s \in Sources |-> << >>]
    /\ got = [s \in Sources |-> << >>]

\* The tasks of a run that has spawned none yet.
TasksStart ==
    /\ mainPc = "for"
    /\ mainErr = NoErr
    /\ idx = 1
    /\ joined = 0
    /\ finished = << >>
    /\ html = [s \in Sources |-> NoPage]
    /\ err = [s \in Sources |-> NoErr]
    /\ wr = [s \in Sources |-> NoWrite]
    /\ emitted = [s \in Sources |-> << >>]
    /\ fetched = [s \in Sources |-> 0]

\* No merge has been asked for: the operands are empty PageData.
AlgIdle ==
    /\ opA = create_page_data(UrlWorkday)
    /\ opB = create_page_data(UrlWorkday)
    /\ opC = create_page_data(UrlWorkday)
    /\ sum = << >>
    /\ scr = << >>

\* ------------------------------------------------------------------- main
\* number of runs of the program over the same cache directory
MaxRuns == 2

Key(s) == CachedFilePath(url[s])

\* -------------------------------------------------------- the rayon pool
\* number of threads the global rayon pool may have
MaxPool == 3

\* main.rs:93 and page_scrapers/mod.rs:165-169  the threads of the pool held
\* by a job that is waiting: the worker's closure, from rayon::spawn until its
\* loop breaks, and every scrape job blocked in PendingKeywords::get.
HeldThreads ==
    (IF workerPc \in {"spawned", "recv", "predict"} THEN 1 ELSE 0)
        + Cardinality({s \in Sources : pc[s] = "wait_reply"})

\* main.rs:150, 164 and resume_gen/mod.rs:148  tokio_rayon::spawn queues the
\* job on the pool: it runs when a thread of the pool is there to take it.
PoolFree == HeldThreads < poolSize

\* main returns: the runtime is dropped and the process ends, which aborts
\* every task that has not ended and every detached write that has not run.
MainReturn(outcome, e) ==
    /\ mainPc' = outcome
    /\ mainErr' = e
    /\ pc' = [s \in Sources |->
                IF pc[s] \in {"start", "done", "failed"} THEN pc[s] ELSE "aborted"]
    /\ wr' = [s \in Sources |->
                IF wr[s].st = "pending" THEN [wr[s] EXCEPT !.st = "lost"] ELSE wr[s]]
    /\ workerPc' = "killed"

\* main.rs:122  try_exists() fails: `?` returns the error from main.
MainCheckFail ==
    /\ mainPc = "for"
    /\ MainReturn("exit_err", ErrCheck)
    /\ UNCHANGED << run, url, enabled, idx, joined, finished, cacheVars, prevVars, algVars, poolVars >>
    /\ UNCHANGED << html, err, emitted, fetched, myChan, myReq, got >>
    /\ UNCHANGED << chanVars, senders, workerCur, modelCount, computing,
                    invokers, scoreLog, sentCount >>

\* main.rs:123 and 142  the browser does not start or new_tab() fails: `?`
\* returns the error from main.
MainTabFail ==
    /\ mainPc = "for"
    /\ MainReturn("exit_err", ErrTab)
    /\ UNCHANGED << run, url, enabled, idx, joined, finished, cacheVars, prevVars, algVars, poolVars >>
    /\ UNCHANGED << html, err, emitted, fetched, myChan, myReq, got >>
    /\ UNCHANGED << chanVars, senders, workerCur, modelCount, computing,
                    invokers, scoreLog, sentCount >>

\* A main that fetches the page although the cache file exists.
MainSpawnHitFetches ==
    /\ mainPc = "for"
    /\ cache[Key(idx)] # Absent
    /\ pc' = [pc EXCEPT ![idx] = "fetch"]
    /\ senders' = senders + 1
    /\ idx' = idx + 1
    /\ mainPc' = IF idx = NumSources THEN "join" ELSE "for"
    /\ UNCHANGED << run, url, enabled, mainErr, joined, finished, cacheVars, prevVars, algVars, poolVars >>
    /\ UNCHANGED << taskVars, myChan, myReq, got, chanVars, workVars >>

\* main.rs:122-135  the cache file exists: spawn the task that reads it.
MainSpawnHit ==
    /\ mainPc = "for"
    /\ cache[Key(idx)] # Absent
    /\ pc' = [pc EXCEPT ![idx] = "hit_read"]
    /\ idx' = idx + 1
    /\ mainPc' = IF idx = NumSources THEN "join" ELSE "for"
    /\ UNCHANGED << run, url, enabled, mainErr, joined, finished, cacheVars, prevVars, algVars, poolVars >>
    /\ UNCHANGED << taskVars, myChan, myReq, got, arbVars >>

\* main.rs:138-194  no cache file: clone the sender and spawn the scrape task.
MainSpawnMiss ==
    /\ mainPc = "for"
    /\ cache[Key(idx)] = Absent
    /\ pc' = [pc EXCEPT ![idx] = "fetch"]
    /\ senders' = senders + 1
    /\ idx' = idx + 1
    /\ mainPc' = IF idx = NumSources THEN "join" ELSE "for"
    /\ UNCHANGED << run, url, enabled, mainErr, joined, finished, cacheVars, prevVars, algVars, poolVars >>
    /\ UNCHANGED << taskVars, myChan, myReq, got, chanVars, workVars >>

\* A task ends with an error.
Fail(s, e) ==
    /\ pc' = [pc EXCEPT ![s] = "failed"]
    /\ err' = [err EXCEPT ![s] = e]
    /\ finished' = Append(finished, s)

\* A reader that takes a file it cannot read or decode for "no data".
ReadEntryLenient(f) ==
    IF f.st # "file" \/ ~DecodeOk(f.bytes) THEN [err |-> NoErr, val |-> << >>]
    ELSE [err |-> NoErr, val |-> Decode(f.bytes)]

\* main.rs:129-130  tokio::fs::read, then bitcode::decode, each with the
\* context of its error.
ReadEntry(f) ==
    IF f.st # "file" THEN [err |-> ErrRead, val |-> << >>]
    ELSE IF ~DecodeOk(f.bytes) THEN [err |-> ErrDeserialize, val |-> << >>]
    ELSE [err |-> NoErr, val |-> Decode(f.bytes)]

\* main.rs:128-134  the cache hit task: read the file, decode it, return on
\* None, otherwise hand the PageData to use_page_data.
TaskHitRead(s) ==
    /\ pc[s] = "hit_read"
    /\ LET r == ReadEntry(cache[Key(s)])
       IN  IF r.err # NoErr
           THEN Fail(s, r.err) /\ UNCHANGED emitted
           ELSE IF r.val = << >>
           THEN /\ pc' = [pc EXCEPT ![s] = "done"]
                /\ finished' = Append(finished, s)
                /\ UNCHANGED << err, emitted >>
           ELSE /\ pc' = [pc EXCEPT ![s] = "use"]
                /\ emitted' = [emitted EXCEPT ![s] = << FromSerde(r.val[1]) >>]
                /\ UNCHANGED << err, finished >>
    /\ UNCHANGED << run, url, enabled, mainPc, mainErr, idx, joined, cacheVars, prevVars, algVars, poolVars >>
    /\ UNCHANGED << html, wr, fetched, myChan, myReq, got, arbVars >>

\* A task that spawns its cache write as soon as it has the page.
TaskFetchOkWrites(s) ==
    /\ pc[s] = "fetch"
    /\ PoolFree
    /\ fetched' = [fetched EXCEPT ![s] = @ + 1]
    /\ \E h \in Pages : html' = [html EXCEPT ![s] = h]
    /\ pc' = [pc EXCEPT ![s] = "scrape"]
    /\ wr' = [wr EXCEPT ![s] = [st |-> "pending", bytes |-> Tombstone]]
    /\ UNCHANGED << mainVars, cacheVars, prevVars, algVars, poolVars, err, emitted >>
    /\ UNCHANGED << myChan, myReq, got, arbVars >>

\* main.rs:149-155  navigate to the url and take the page content.
TaskFetchOk(s) ==
    /\ pc[s] = "fetch"
    /\ PoolFree
    /\ fetched' = [fetched EXCEPT ![s] = @ + 1]
    /\ \E h \in Pages : html' = [html EXCEPT ![s] = h]
    /\ pc' = [pc EXCEPT ![s] = "scrape"]
    /\ UNCHANGED << mainVars, cacheVars, prevVars, algVars, poolVars, err, wr, emitted >>
    /\ UNCHANGED << myChan, myReq, got, arbVars >>

\* A task that, when the navigation fails, spawns the write of a "no data"
\* cache file before it ends with the error.
TaskFetchFailWrites(s) ==
    /\ pc[s] = "fetch"
    /\ PoolFree
    /\ fetched' = [fetched EXCEPT ![s] = @ + 1]
    /\ Fail(s, ErrFetch)
    /\ senders' = senders - 1
    /\ wr' = [wr EXCEPT ![s] = [st |-> "pending", bytes |-> Tombstone]]
    /\ UNCHANGED << run, url, enabled, mainPc, mainErr, idx, joined, cacheVars, prevVars, algVars, poolVars >>
    /\ UNCHANGED << html, emitted, myChan, myReq, got, chanVars, workVars >>

\* main.rs:151-155  the navigation fails: `?` ends the task with the error.
TaskFetchFail(s) ==
    /\ pc[s] = "fetch"
    /\ PoolFree
    /\ fetched' = [fetched EXCEPT ![s] = @ + 1]
    /\ Fail(s, ErrFetch)
    /\ senders' = senders - 1
    /\ UNCHANGED << run, url, enabled, mainPc, mainErr, idx, joined, cacheVars, prevVars, algVars, poolVars >>
    /\ UNCHANGED << html, wr, emitted, myChan, myReq, got, chanVars, workVars >>

\* A scrape_page that calls the Simplify scraper whether it is enabled or not.
SimplifyPanicsDisabled(s) == HostContains(url[s].host, "simplify.jobs")

\* simplify.rs:10-20  the Simplify scraper reaches todo!() on its own host.
SimplifyPanics(s) ==
    /\ SimplifyName \in enabled
    /\ HostContains(url[s].host, "simplify.jobs")

\* A Workday scraper that does not look at the host of the url.
WorkdayExtractsAnyHost(s) ==
    /\ WorkdayName \in enabled
    /\ CompanyOf(url[s]) # << >>
    /\ html[s].header # << >>
    /\ html[s].desc # << >>

\* workday.rs:12-27  the Workday scraper gets as far as extract_keywords.
WorkdayExtracts(s) ==
    /\ WorkdayName \in enabled
    /\ HostContains(url[s].host, "myworkdaysite.com")
    /\ CompanyOf(url[s]) # << >>
    /\ html[s].header # << >>
    /\ html[s].desc # << >>

\* main.rs:164-166 and page_scrapers/mod.rs:18-84  scrape_page as far as the
\* first point it blocks at: the Workday scraper's request to the worker.
ScrapeStart(s) ==
    /\ pc[s] = "scrape"
    /\ PoolFree
    /\ IF WorkdayExtracts(s)
       THEN /\ extract_keywords(s, html[s].desc[1])
            /\ pc' = [pc EXCEPT ![s] = "wait_reply"]
       ELSE /\ pc' = [pc EXCEPT ![s] = IF SimplifyPanics(s) THEN "panicked" ELSE "scraped"]
            /\ UNCHANGED << myChan, myReq, arbVars >>
    /\ UNCHANGED << got, orchVars >>

\* A panic of the scrape job unwinds into the task, which ends with a JoinError.
TaskPanic(s) ==
    /\ pc[s] = "panicked"
    /\ Fail(s, ErrPanic)
    /\ senders' = senders - 1
    /\ UNCHANGED << run, url, enabled, mainPc, mainErr, idx, joined, cacheVars, prevVars, algVars, poolVars >>
    /\ UNCHANGED << html, wr, emitted, fetched, myChan, myReq, got, chanVars, workVars >>

\* simplify.rs:10-20  what SimplifyScraper::scrape returned when scrape_page
\* came back: None, since on its own host it does not return.
SimplifyResult(s) == ScrapeNone

\* workday.rs:12-50  what WorkdayScraper::scrape returned: the PageData built
\* from the reply when it got as far as asking for one, None otherwise.
WorkdayResult(s) ==
    IF got[s] # << >> THEN ScrapeOk(WorkdayData(url[s], html[s], got[s][1]))
    ELSE ScrapeNone

\* main.rs:164-166  the page_data that scrape_page returned to the task.
ScrapedData(s) == scrape_page(enabled, SimplifyResult(s), WorkdayResult(s)).data

\* main.rs:164-166  the errors that scrape_page returned to the task.
ScrapedErrors(s) == scrape_page(enabled, SimplifyResult(s), WorkdayResult(s)).errs

\* main.rs:167-193  report (detached), encode the result, spawn the detached
\* cache write, return on None, otherwise hand the PageData to use_page_data.
TaskPersist(s) ==
    /\ pc[s] = "scraped"
    /\ LET page_data == IF ScrapedData(s) = << >> THEN << >>
                         ELSE << ToSerde(ScrapedData(s)[1]) >>
       IN  /\ wr' = [wr EXCEPT ![s] = [st |-> "pending", bytes |-> Encode(page_data)]]
           /\ IF page_data = << >>
              THEN /\ pc' = [pc EXCEPT ![s] = "done"]
                   /\ finished' = Append(finished, s)
                   /\ UNCHANGED emitted
              ELSE /\ pc' = [pc EXCEPT ![s] = "use"]
                   /\ emitted' = [emitted EXCEPT ![s] = << FromSerde(page_data[1]) >>]
                   /\ UNCHANGED finished
    /\ html' = [html EXCEPT ![s] = NoPage]
    /\ senders' = senders - 1
    /\ UNCHANGED << run, url, enabled, mainPc, mainErr, idx, joined, cacheVars, prevVars, algVars, poolVars >>
    /\ UNCHANGED << err, fetched, myChan, myReq, got, chanVars, workVars >>

\* resume_gen/mod.rs:147-227  use_page_data succeeds.
TaskUseOk(s) ==
    /\ pc[s] = "use"
    /\ PoolFree
    /\ pc' = [pc EXCEPT ![s] = "done"]
    /\ finished' = Append(finished, s)
    /\ UNCHANGED << run, url, enabled, mainPc, mainErr, idx, joined, cacheVars, prevVars, algVars, poolVars >>
    /\ UNCHANGED << taskVars, myChan, myReq, got, arbVars >>

\* main.rs:133 and 193  use_page_data fails: the task ends with the error.
TaskUseFail(s) ==
    /\ pc[s] = "use"
    /\ PoolFree
    /\ Fail(s, ErrProcess)
    /\ UNCHANGED << run, url, enabled, mainPc, mainErr, idx, joined, cacheVars, prevVars, algVars, poolVars >>
    /\ UNCHANGED << html, wr, emitted, fetched, myChan, myReq, got, arbVars >>

\* main.rs:188  the detached task writes the cache file.
WriteOk(s) ==
    /\ wr[s].st = "pending"
    /\ cache' = [cache EXCEPT ![Key(s)] = File(wr[s].bytes)]
    /\ wr' = [wr EXCEPT ![s].st = "done"]
    /\ UNCHANGED << mainVars, cacheAtStart, prevVars, algVars, poolVars, html, err, emitted, fetched >>
    /\ UNCHANGED << callerVars, arbVars >>

\* main.rs:188  the write fails: expect() panics inside the detached task,
\* whose JoinHandle nobody holds.
WriteFail(s) ==
    /\ wr[s].st = "pending"
    /\ wr' = [wr EXCEPT ![s].st = "panicked"]
    /\ UNCHANGED << mainVars, cacheVars, prevVars, algVars, poolVars, html, err, emitted, fetched >>
    /\ UNCHANGED << callerVars, arbVars >>

\* main.rs:197-199  join_next() returns a task that ended; `??` returns its
\* error from main.
MainJoin ==
    /\ mainPc = "join"
    /\ finished # << >>
    /\ finished' = Tail(finished)
    /\ IF pc[Head(finished)] = "failed"
       THEN /\ MainReturn("exit_err", err[Head(finished)])
            /\ UNCHANGED joined
       ELSE /\ joined' = joined + 1
            /\ UNCHANGED << mainPc, mainErr, pc, wr, workerPc >>
    /\ UNCHANGED << run, url, enabled, idx, cacheVars, prevVars, algVars, poolVars >>
    /\ UNCHANGED << html, err, emitted, fetched, myChan, myReq, got >>
    /\ UNCHANGED << chanVars, senders, workerCur, modelCount, computing,
                    invokers, scoreLog, sentCount >>

\* main.rs:197-202  the JoinSet is empty: print success and return Ok.
MainSuccess ==
    /\ mainPc = "join"
    /\ joined = NumSources
    /\ MainReturn("exit_ok", NoErr)
    /\ UNCHANGED << run, url, enabled, idx, joined, finished, cacheVars, prevVars, algVars, poolVars >>
    /\ UNCHANGED << html, err, emitted, fetched, myChan, myReq, got >>
    /\ UNCHANGED << chanVars, senders, workerCur, modelCount, computing,
                    invokers, scoreLog, sentCount >>

\* The program is run again with the same config.toml and the cache
\* directory as the run before left it.
NextRun ==
    /\ mainPc \in {"exit_ok", "exit_err"}
    /\ run < MaxRuns
    /\ run' = run + 1
    /\ prevOk' = (mainPc = "exit_ok")
    /\ prevEmitted' = [s \in Sources |->
                        IF mainPc = "exit_ok" /\ cache[Key(s)] # Absent
                        THEN emitted[s] ELSE << >>]
    /\ cacheAtStart' = cache
    /\ reqChan' = << >>
    /\ rcvAlive' = TRUE
    /\ chans' = [c \in ChanIds |-> NoChan]
    /\ nextChan' = 0
    /\ workerPc' = "spawned"
    /\ workerCur' = << >>
    /\ modelCount' = 0
    /\ computing' = {}
    /\ invokers' = {}
    /\ enqLog' = << >>
    /\ scoreLog' = << >>
    /\ sentCount' = [c \in ChanIds |-> 0]
    /\ myChan' = [s \in Sources |-> 0]
    /\ myReq' = [s \in Sources |-> << >>]
    /\ got' = [s \in Sources |-> << >>]
    /\ mainPc' = "for"
    /\ mainErr' = NoErr
    /\ idx' = 1
    /\ joined' = 0
    /\ finished' = << >>
    /\ html' = [s \in Sources |-> NoPage]
    /\ err' = [s \in Sources |-> NoErr]
    /\ wr' = [s \in Sources |-> NoWrite]
    /\ emitted' = [s \in Sources |-> << >>]
    /\ fetched' = [s \in Sources |-> 0]
    /\ senders' = 1
    /\ pc' = [s \in Sources |-> "start"]
    /\ UNCHANGED << url, enabled, cache, algVars, poolVars >>

\* main.rs:36-113  main up to the for loop: the config is read, the worker
\* spawned, the JoinSet empty; the cache directory holds what it holds.
Init ==
    /\ ArbiterStart
    /\ TasksStart
    /\ senders = 1
    /\ pc = [s \in Sources |-> "start"]
    /\ run = 1
    /\ url \in [Sources -> Urls]
    /\ enabled \in SUBSET DEFAULT_SCRAPERS
    /\ \E kind \in [Urls -> FileKinds] :
          cache = [k \in Keys |->
                     LET u == CHOOSE v \in Urls : CachedFilePath(v) = k
                     IN  IF \E s \in Sources : url[s] = u
                         THEN FileOf(kind[u], u) ELSE Absent]
    /\ cacheAtStart = cache
    /\ prevOk = FALSE
    /\ prevEmitted = emitted
    /\ AlgIdle
    /\ poolSize \in 1 .. MaxPool

Next ==
    \/ WorkerInit
    \/ WorkerRecv
    \/ WorkerSend
    \/ MainCheckFail
    \/ MainTabFail
    \/ MainSpawnHit
    \/ MainSpawnMiss
    \/ MainJoin
    \/ MainSuccess
    \/ \E s \in Sources : TaskHitRead(s)
    \/ \E s \in Sources : TaskFetchOk(s)
    \/ \E s \in Sources : TaskFetchFail(s)
    \/ \E s \in Sources : ScrapeStart(s)
    \/ \E s \in Sources : PendingGet(s)
    \/ \E s \in Sources : TaskPanic(s)
    \/ \E s \in Sources : TaskPersist(s)
    \/ \E s \in Sources : TaskUseOk(s)
    \/ \E s \in Sources : TaskUseFail(s)
    \/ \E s \in Sources : WriteOk(s)
    \/ \E s \in Sources : WriteFail(s)

\* One run of the program.
Spec == Init /\ [][Next]_vars

\* The program, run MaxRuns times over one cache directory.
SpecRuns == Init /\ [][Next \/ NextRun]_vars

\* The arbiter alone: every caller holds a ScraperState and is about to call.
ArbInit ==
    /\ ArbiterStart
    /\ senders = NumSources
    /\ pc = [s \in Sources |-> "scrape"]
    /\ TasksStart
    /\ run = 1
    /\ url = [s \in Sources |-> UrlWorkday]
    /\ enabled = DEFAULT_SCRAPERS
    /\ cache = [k \in Keys |-> Absent]
    /\ cacheAtStart = cache
    /\ prevOk = FALSE
    /\ prevEmitted = emitted
    /\ AlgIdle
    /\ poolSize = MaxPool

ArbNext ==
    \/ WorkerInit
    \/ WorkerRecv
    \/ WorkerSend
    \/ \E s \in Sources : ArbCall(s)
    \/ \E s \in Sources : PendingGet(s)
    \/ \E s \in Sources : ArbDropPending(s)
    \/ \E s \in Sources : ArbDropState(s)

\* The arbiter with callers that may drop their PendingKeywords.
SpecArbiter == ArbInit /\ [][ArbNext]_vars

\* The arbiter whose worker, once rayon::spawn has given it a thread, keeps
\* running: each of its steps is taken when it stays possible.
SpecArbiterFair ==
    /\ SpecArbiter
    /\ WF_vars(WorkerInit)
    /\ WF_vars(WorkerRecv)
    /\ WF_vars(WorkerSend)

\* ------------------------------------------- merges, on their own operands
\* largest weight of a keyword of an operand
MaxWeight == 2

\* The texts of the keywords of the operands.
KeywordTexts == {"api", "rust"}

\* FxHashSet<KeyWithData<String, f32>>: at most one entry for a text. The
\* weights are whole numbers, which f32 adds without rounding.
KeywordSets ==
    {{[key |-> k, data |-> w[k]] : k \in ks} :
        ks \in SUBSET KeywordTexts, w \in [KeywordTexts -> 1 .. MaxWeight]}

\* The PageData a scraper may return for one page: job_title and company are
\* the empty strings of create_page_data or what the scraper found.
PageDatas(titles, companies) ==
    {[keywords |-> ks, url |-> UrlWorkday, job_title |-> t, company |-> c] :
        ks \in KeywordSets, t \in {""} \cup titles, c \in {""} \cup companies}

\* The errors a scraper may return.
ErrSimplify == "simplify failed"
ErrWorkday == "workday failed"

\* The operands of the merges and the two scraper results to join.
MergeInit ==
    /\ ArbiterStart
    /\ TasksStart
    /\ senders = 1
    /\ pc = [s \in Sources |-> "start"]
    /\ run = 1
    /\ url = [s \in Sources |-> UrlWorkday]
    /\ enabled = DEFAULT_SCRAPERS
    /\ cache = [k \in Keys |-> Absent]
    /\ cacheAtStart = cache
    /\ prevOk = FALSE
    /\ prevEmitted = emitted
    /\ opA \in PageDatas({"Engineer"}, {"acme"})
    /\ opB \in PageDatas({"Developer"}, {"initech"})
    /\ opC \in PageDatas({}, {})
    /\ sum = << >>
    /\ scr = << >>
    /\ poolSize = MaxPool

\* page_scrapers/mod.rs:30  data1_inner + data2_inner, for the operands taken
\* two at a time.
AddPairs ==
    /\ sum = << >>
    /\ scr = << >>
    /\ sum' = << [ab |-> << Add(opA, opB) >>, ba |-> << Add(opB, opA) >>,
                  bc |-> << Add(opB, opC) >>, ab_c |-> << >>, a_bc |-> << >>] >>
    /\ UNCHANGED << opA, opB, opC, scr >>
    /\ UNCHANGED << arbVars, callerVars, mainVars, cacheVars, taskVars, prevVars, poolVars >>

\* page_scrapers/mod.rs:30  a sum is an operand of another sum.
AddTriples ==
    /\ sum # << >>
    /\ sum[1].ab_c = << >>
    /\ sum' = << [sum[1] EXCEPT !.ab_c = << Add(sum[1].ab[1], opC) >>,
                                !.a_bc = << Add(opA, sum[1].bc[1]) >>] >>
    /\ UNCHANGED << opA, opB, opC, scr >>
    /\ UNCHANGED << arbVars, callerVars, mainVars, cacheVars, taskVars, prevVars, poolVars >>

\* What a scraper may return when x is the PageData it finds on the page.
ScrapeResults(e, x) == {ScrapeNone, ScrapeErr(e), ScrapeOk(x)}

\* page_scrapers/mod.rs:82-84  scrape_page with any enabled set, for any
\* result of each of the two scrapers.
ScrapePageCall ==
    /\ sum = << >>
    /\ scr = << >>
    /\ \E en \in SUBSET DEFAULT_SCRAPERS,
          r1 \in ScrapeResults(ErrSimplify, opA), r2 \in ScrapeResults(ErrWorkday, opB) :
            scr' = << [enabled_scrapers |-> en, simplify |-> r1, workday |-> r2,
                       out |-> scrape_page(en, r1, r2)] >>
    /\ UNCHANGED << opA, opB, opC, sum >>
    /\ UNCHANGED << arbVars, callerVars, mainVars, cacheVars, taskVars, prevVars, poolVars >>

MergeNext ==
    \/ AddPairs
    \/ AddTriples
    \/ ScrapePageCall

\* PageData::add and scrape_page! applied to operands of their own.
SpecMerge == MergeInit /\ [][MergeNext]_vars

\* ------------------------------------------------------ claims: the arbiter

\* C1 (as claimed): a caller that dropped its reply channel does not stop the
\* worker, so no caller that keeps its reply channel finds it disconnected
\* without a response (PendingKeywords::get never panics).
C1_LaterCallersAnswered == \A s \in Sources : pc[s] # "panicked"

\* C3: the worker scores requests in the order they were enqueued: the
\* sequence of scored requests is a prefix of the sequence of enqueued ones.
C3_Fifo ==
    /\ Len(scoreLog) <= Len(enqLog)
    /\ scoreLog = SubSeq(enqLog, 1, Len(scoreLog))

\* Two requests were scored, the second caller's one enqueued (and scored)
\* before the first caller's.
C3_Witness ==
    /\ Len(scoreLog) >= 2
    /\ myChan[2] > 0
    /\ myChan[1] > myChan[2]

\* C4: at most one request is inside predict, the model is built at most
\* once and before any predict, and only the worker calls predict.
C4_Exclusive ==
    /\ Cardinality(computing) <= 1
    /\ modelCount <= 1
    /\ computing # {} => modelCount = 1
    /\ invokers \subseteq {"worker"}

\* One request is being computed while another one waits in the channel.
C4_Witness == computing # {} /\ reqChan # << >>

\* C5: every caller holds a reply channel of its own, what get returns to a
\* caller is predict of the lines that caller sent, and no reply channel
\* ever carries more than one response.
C5_Pairing ==
    /\ \A s \in Sources : got[s] # << >> => got[s][1] = Predict(myReq[s])
    /\ \A c \in ChanIds : sentCount[c] <= 1
    /\ \A s1, s2 \in Sources :
          (s1 # s2 /\ pc[s1] = "wait_reply" /\ pc[s2] = "wait_reply")
              => myChan[s1] # myChan[s2]

\* Two callers whose requests were queued together each got their own,
\* different, response.
C5_Witness ==
    /\ got[1] # << >> /\ got[2] # << >>
    /\ got[1] # got[2]
    /\ myChan[1] > myChan[2]

\* ----------------------------------------------------- claims: the pipeline

Exited == mainPc \in {"exit_ok", "exit_err"}

\* C2 (as claimed): when the run reports its outcome, every source has
\* reached Done or Failed: no failure keeps a sibling from starting or
\* aborts it.
C2_SiblingIsolation ==
    Exited => \A s \in Sources : pc[s] \in {"done", "failed"}

TombstoneAtStart(s) == cacheAtStart[Key(s)] = File(Tombstone)

\* C6: a source whose cache file holds the tombstone when the run starts is
\* never fetched, sends no score request, gets no cache write, has nothing
\* handed to use_page_data, and its task, once it ran, is Done: it is never
\* in a state of the cache-miss path nor Failed.
C6_TombstoneHit ==
    \A s \in Sources :
        TombstoneAtStart(s) =>
            /\ pc[s] \in {"start", "hit_read", "done", "aborted"}
            /\ fetched[s] = 0
            /\ myChan[s] = 0
            /\ wr[s] = NoWrite
            /\ emitted[s] = << >>
            /\ cache[Key(s)] = cacheAtStart[Key(s)]

\* A tombstone source is Done while the run is still going on.
C6_Witness ==
    \E s \in Sources : TombstoneAtStart(s) /\ pc[s] = "done" /\ ~Exited

\* C7 (as claimed): in a run that follows a run that reported success, no
\* source is fetched and every source, read from its cache file, hands
\* use_page_data what it handed it in the run before (or nothing, as before).
C7_CacheIdempotent ==
    (run > 1 /\ prevOk) =>
        \A s \in Sources :
            /\ fetched[s] = 0
            /\ (pc[s] \in {"use", "done"} /\ cacheAtStart[Key(s)] # Absent) =>
                  emitted[s] = prevEmitted[s]

\* C8 (as claimed): when the run has reported success, no cache write is
\* pending or lost: each one completed or panicked with its message.
C8_StoreBeforeSuccess ==
    mainPc = "exit_ok" => \A s \in Sources : wr[s].st \in {"none", "done", "panicked"}

\* C9 (as claimed): a source whose cache write failed is not Done and the
\* run does not report success.
C9_PersistFailureFails ==
    \A s \in Sources :
        wr[s].st = "panicked" => (pc[s] # "done" /\ mainPc # "exit_ok")

BadAtStart(s) == cacheAtStart[Key(s)] \in {Unreadable, File(CorruptBytes)}
HasDeleteHint(e) == e = ErrDeserialize

\* What C10 says of every unreadable or undecodable entry but the message:
\* no fetch, no score request, no cache write, nothing handed to
\* use_page_data, the file left as it was, the task never Done.
C10_NoFallback(s) ==
    /\ pc[s] \in {"start", "hit_read", "failed", "aborted"}
    /\ fetched[s] = 0
    /\ myChan[s] = 0
    /\ wr[s] = NoWrite
    /\ emitted[s] = << >>
    /\ cache[Key(s)] = cacheAtStart[Key(s)]

\* C10 (as claimed): a cache file that cannot be read or decoded fails its
\* source, without fallback, with an error that says to delete the entry.
C10_CorruptFatalWithHint ==
    \A s \in Sources :
        BadAtStart(s) =>
            /\ C10_NoFallback(s)
            /\ pc[s] = "failed" => HasDeleteHint(err[s])

\* C10 (amended): a cache file that cannot be read or decoded fails its
\* source, without fallback; the error says to delete the entry when the
\* file was read and could not be decoded, and is the plain read error when
\* the file could not be read.
C10_CorruptFatal ==
    \A s \in Sources :
        BadAtStart(s) =>
            /\ C10_NoFallback(s)
            /\ pc[s] = "failed" =>
                  err[s] = IF cacheAtStart[Key(s)] = Unreadable
                           THEN ErrRead ELSE ErrDeserialize

\* One source failed on an undecodable file and another on an unreadable one.
C10_Witness ==
    \E s1, s2 \in Sources :
        /\ cacheAtStart[Key(s1)] = File(CorruptBytes) /\ pc[s1] = "failed"
        /\ HasDeleteHint(err[s1])
        /\ cacheAtStart[Key(s2)] = Unreadable /\ pc[s2] = "failed"
        /\ ~HasDeleteHint(err[s2])

\* ------------------------------------------------------- claims: the merge

Keywords(d) == d.keywords
SumsDone == sum # << >> /\ sum[1].ab_c # << >>

\* C11: the merge of keyword sets is commutative and associative: the
\* keywords of A + B are those of B + A, and the keywords of (A + B) + C are
\* those of A + (B + C), entry by entry (text and weight).
C11_MergeCommAssoc ==
    /\ sum # << >> => Keywords(sum[1].ab[1]) = Keywords(sum[1].ba[1])
    /\ SumsDone => Keywords(sum[1].ab_c[1]) = Keywords(sum[1].a_bc[1])

\* All sums are computed for operands that share a text with different
\* weights, each hold a text the other lacks or a third operand adds to.
C11_Witness ==
    /\ SumsDone
    /\ \E a \in Keywords(opA), b \in Keywords(opB), c \in Keywords(opC) :
          a.key = b.key /\ b.key = c.key /\ a.data # b.data /\ b.data # c.data
    /\ Cardinality(Keywords(opA)) = 2
    /\ Cardinality(Keywords(opB)) = 1

KeysOf(set) == {e.key : e \in set}
WeightOf(set, k) == (CHOOSE e \in set : e.key = k).data
UniqueKeys(set) == \A e1, e2 \in set : e1.key = e2.key => e1 = e2

\* C12: the keywords of A + B hold exactly the texts of A and of B, each
\* once; a text of both has the sum of the two weights, a text of one side
\* keeps that side's weight; merging with an empty set on either side gives
\* the other set.
C12_MergeResult ==
    sum # << >> =>
        LET a == Keywords(opA)
            b == Keywords(opB)
            m == Keywords(sum[1].ab[1])
        IN  /\ UniqueKeys(m)
            /\ KeysOf(m) = KeysOf(a) \cup KeysOf(b)
            /\ \A k \in KeysOf(m) :
                  WeightOf(m, k) =
                      IF k \in KeysOf(a) /\ k \in KeysOf(b)
                      THEN WeightOf(a, k) + WeightOf(b, k)
                      ELSE IF k \in KeysOf(a) THEN WeightOf(a, k) ELSE WeightOf(b, k)
            /\ b = {} => m = a
            /\ a = {} => m = b

\* A sum whose operands share a text while the right one holds a text the
\* left one lacks.
C12_Witness ==
    /\ sum # << >>
    /\ KeysOf(Keywords(opA)) \cap KeysOf(Keywords(opB)) # {}
    /\ KeysOf(Keywords(opB)) \ KeysOf(Keywords(opA)) # {}
    /\ Cardinality(Keywords(sum[1].ab[1])) = 2

FirstNonEmpty(left, right) == IF left # "" THEN left ELSE right

\* C13 (as claimed): the job title and the company of A + B are those of A
\* when A's are not empty, and those of B otherwise, so that a title or a
\* company that only B supplies is in the sum.
C13_LeftBiasedFields ==
    sum # << >> =>
        /\ sum[1].ab[1].job_title = FirstNonEmpty(opA.job_title, opB.job_title)
        /\ sum[1].ab[1].company = FirstNonEmpty(opA.company, opB.company)


\* ---------------------------------------------- claims: scraping one page

\* The candidates of the reply a task got, one after another.
Candidates(s) == Flatten(got[s][1])
\* The keyword set of the Workday scraper after its first n candidates.
Accumulator(s, n) == Accumulate({}, SubSeq(Candidates(s), 1, n))
\* The keyword sets a decodable cache file holds.
StoredKeywords(bytes) ==
    IF DecodeOk(bytes) /\ Decode(bytes) # << >> THEN {Decode(bytes)[1].keywords} ELSE {}

\* C14: every keyword set holds at most one entry for a text: the
\* accumulator of the scraper after each candidate, the result of
\* scrape_page, what is handed to use_page_data, what a cache write carries
\* and what a cache file holds; a candidate whose text is already there
\* leaves the number of entries as it is and adds its score to the weight.
C14_UniqueKeys ==
    /\ \A s \in Sources :
          /\ got[s] # << >> =>
                /\ \A n \in 0 .. Len(Candidates(s)) : UniqueKeys(Accumulator(s, n))
                /\ \A n \in 1 .. Len(Candidates(s)) :
                      LET x == Candidates(s)[n]
                          before == Accumulator(s, n - 1)
                          after == Accumulator(s, n)
                      IN  x.text \in KeysOf(before) =>
                              /\ Cardinality(after) = Cardinality(before)
                              /\ WeightOf(after, x.text) = WeightOf(before, x.text) + x.score
          /\ (pc[s] = "scraped" /\ ScrapedData(s) # << >>) =>
                UniqueKeys(ScrapedData(s)[1].keywords)
          /\ emitted[s] # << >> => UniqueKeys(emitted[s][1].keywords)
          /\ \A ks \in StoredKeywords(wr[s].bytes) : UniqueKeys(ks)
    /\ \A k \in Keys : \A ks \in StoredKeywords(cache[k].bytes) : UniqueKeys(ks)

\* A page of two lines that both yield "api" was scraped, handed on with two
\* entries and written to its cache file.
C14_Witness ==
    \E s \in Sources :
        /\ got[s] # << >>
        /\ \E n \in 1 .. Len(Candidates(s)) :
              Candidates(s)[n].text \in KeysOf(Accumulator(s, n - 1))
        /\ emitted[s] # << >>
        /\ Cardinality(emitted[s][1].keywords) = 2
        /\ StoredKeywords(cache[Key(s)].bytes) = {emitted[s][1].keywords}


\* workday.rs:13 and simplify.rs:11  the site match of each scraper.
WorkdayApplies(s) == HostContains(url[s].host, "myworkdaysite.com")
SimplifyApplies(s) == HostContains(url[s].host, "simplify.jobs")
MissAtStart(s) == cacheAtStart[Key(s)] = Absent

\* What a source shows when the Workday scraper gave nothing to it: no score
\* request, no reply, scrape_page returns no data and no error, nothing is
\* handed to use_page_data and the cache write carries "no data".
NoWorkdayPart(s) ==
    /\ myChan[s] = 0
    /\ got[s] = << >>
    /\ pc[s] = "scraped" =>
          /\ WorkdayResult(s) = ScrapeNone
          /\ ScrapedData(s) = << >>
          /\ ScrapedErrors(s) = << >>
    /\ MissAtStart(s) => emitted[s] = << >>
    /\ wr[s].st # "none" => wr[s].bytes = Tombstone

\* What a source shows when the Simplify scraper gave nothing to it: no
\* panic, and scrape_page returns what the Workday scraper returned, with no
\* error.
NoSimplifyPart(s) ==
    /\ pc[s] # "panicked"
    /\ err[s] # ErrPanic
    /\ pc[s] = "scraped" =>
          /\ ScrapedErrors(s) = << >>
          /\ ScrapedData(s) = WorkdayResult(s).x

\* C15: a scraper whose site match is false for a source gives nothing to
\* that source's result (no keyword, title, company or error) and sends no
\* score request, enabled or not.
C15_NotApplicable ==
    \A s \in Sources :
        /\ ~WorkdayApplies(s) => NoWorkdayPart(s)
        /\ ~SimplifyApplies(s) => NoSimplifyPart(s)

\* scrape_page has returned for a page with a header and list items whose
\* host neither scraper matches, both scrapers enabled.
C15_Witness ==
    \E s \in Sources :
        /\ enabled = DEFAULT_SCRAPERS
        /\ ~WorkdayApplies(s) /\ ~SimplifyApplies(s)
        /\ pc[s] = "scraped"
        /\ html[s].header # << >>
        /\ html[s].desc # << >> /\ html[s].desc[1] # << >>


\* scrape_page returns for a disabled scraper, whatever that scraper would
\* return for the page, what it returns when the scraper is enabled and
\* returns None.
AsNotApplicable(s) ==
    pc[s] = "scraped" =>
        /\ WorkdayName \notin enabled =>
              \A r \in ScrapeResults(ErrWorkday, create_page_data(url[s])) :
                  scrape_page(enabled, SimplifyResult(s), r)
                      = scrape_page(enabled \cup {WorkdayName}, SimplifyResult(s), ScrapeNone)
        /\ SimplifyName \notin enabled =>
              \A r \in ScrapeResults(ErrSimplify, create_page_data(url[s])) :
                  scrape_page(enabled, r, WorkdayResult(s))
                      = scrape_page(enabled \cup {SimplifyName}, ScrapeNone, WorkdayResult(s))

\* C16: a scraper that is not in the enabled set is not called for any
\* source (no score request, no panic), the result and the errors of
\* scrape_page are what they are when that scraper returns None, and the
\* enabled set never changes once main has built it.
C16_EnabledFilter ==
    /\ [](\A s \in Sources :
            /\ WorkdayName \notin enabled => NoWorkdayPart(s)
            /\ SimplifyName \notin enabled => NoSimplifyPart(s)
            /\ AsNotApplicable(s))
    /\ [][enabled' = enabled]_vars

\* With no scraper enabled, scrape_page has returned for a Workday posting
\* with list items, and a page of simplify.jobs was fetched and scraped
\* without a panic.
C16_Witness ==
    \E s1, s2 \in Sources :
        /\ enabled = {}
        /\ url[s1] = UrlWorkday /\ pc[s1] = "scraped"
        /\ html[s1].header # << >>
        /\ html[s1].desc # << >> /\ html[s1].desc[1] # << >>
        /\ url[s2] = UrlSimplify /\ fetched[s2] = 1 /\ pc[s2] \in {"scraped", "done"}


\* What a scraper gave to scrape_page: nothing when it was not called.
Returned(name, en, r) == IF name \in en THEN r ELSE ScrapeNone
Count(seq, e) == Cardinality({i \in 1 .. Len(seq) : seq[i] = e})

\* C17: scrape_page returns the merge of the PageData of exactly those
\* scrapers that returned one, whatever the other scraper returned, and no
\* data when none did; its error list holds every error a scraper returned
\* exactly once and nothing else.
C17_IsolationAndErrors ==
    scr # << >> =>
        LET en == scr[1].enabled_scrapers
            r1 == Returned(SimplifyName, en, scr[1].simplify)
            r2 == Returned(WorkdayName, en, scr[1].workday)
            out == scr[1].out
            reported == {r \in {r1, r2} : r.tag = "err"}
        IN  /\ out.data =
                  IF r1.tag = "ok" /\ r2.tag = "ok" THEN << Add(r1.x[1], r2.x[1]) >>
                  ELSE IF r1.tag = "ok" THEN r1.x
                  ELSE IF r2.tag = "ok" THEN r2.x
                  ELSE << >>
            /\ \A r \in reported : Count(out.errs, r.e) = 1
            /\ Len(out.errs) = Cardinality(reported)

\* scrape_page has returned the data of the one scraper that returned some,
\* and the error of the other.
C17_Witness ==
    /\ scr # << >>
    /\ scr[1].enabled_scrapers = DEFAULT_SCRAPERS
    /\ scr[1].simplify.tag = "err"
    /\ scr[1].workday.tag = "ok"
    /\ Keywords(opB) # {}
    /\ scr[1].out.data = << opB >>
    /\ scr[1].out.errs = << ErrSimplify >>


RECURSIVE SumScores(_, _)
\* The sum of the scores of the candidates of xs whose text is text.
SumScores(xs, text) ==
    IF xs = << >> THEN 0
    ELSE (IF Head(xs).text = text THEN Head(xs).score ELSE 0) + SumScores(Tail(xs), text)

\* C18: what a task that fetched its page hands to use_page_data holds, for
\* each text among the candidates of the score response, one entry whose
\* weight is the sum of the scores of all candidates with that text over all
\* lines, and no other entry; the cache write of the task carries that same
\* result.
C18_EndToEnd ==
    \A s \in Sources :
        (fetched[s] = 1 /\ emitted[s] # << >>) =>
            LET ks == emitted[s][1].keywords
            IN  /\ got[s] = << Predict(myReq[s]) >>
                /\ UniqueKeys(ks)
                /\ KeysOf(ks) = {Candidates(s)[i].text : i \in 1 .. Len(Candidates(s))}
                /\ \A k \in KeysOf(ks) : WeightOf(ks, k) = SumScores(Candidates(s), k)
                /\ wr[s].st # "none"
                /\ wr[s].bytes = Encode(<< ToSerde(emitted[s][1]) >>)

\* A page that was not cached, with the two list items "Build APIs" and
\* "Build APIs", each scored [("api", 1)]: the task handed on {("api", 2)}
\* and its cache file holds that result.
C18_Witness ==
    \E s \in Sources :
        /\ MissAtStart(s)
        /\ fetched[s] = 1
        /\ myReq[s] = << "Build APIs", "Build APIs" >>
        /\ emitted[s] # << >>
        /\ emitted[s][1].keywords = {[key |-> "api", data |-> 2]}
        /\ cache[Key(s)] = File(Encode(<< ToSerde(emitted[s][1]) >>))


\* ------------------------------------------------- claims: order of stages

\* C19: on the cache-miss path the page is fetched before the scrape starts
\* (no score request without a fetched page), the scrape and the score reply
\* it waits for are over before the cache write is spawned, and no cache
\* write is spawned for a source whose fetch has not succeeded.
C19_StageOrder ==
    \A s \in Sources :
        /\ pc[s] = "fetch" => (fetched[s] = 0 /\ myChan[s] = 0 /\ wr[s] = NoWrite)
        /\ pc[s] \in {"scrape", "wait_reply", "scraped", "panicked"} =>
              (fetched[s] = 1 /\ wr[s] = NoWrite)
        /\ myChan[s] # 0 => (fetched[s] = 1 /\ err[s] # ErrFetch)
        /\ err[s] = ErrFetch => wr[s] = NoWrite
        /\ wr[s] # NoWrite =>
              /\ fetched[s] = 1
              /\ err[s] # ErrFetch
              /\ pc[s] \in {"use", "done", "failed", "aborted"}
              /\ myChan[s] # 0 => (got[s] # << >> /\ chans[myChan[s]].buf = << >>)

\* A task fetched its page, got its score reply and then had its cache
\* write done, while another task's fetch failed.
C19_Witness ==
    \E s1, s2 \in Sources :
        /\ fetched[s1] = 1 /\ got[s1] # << >> /\ wr[s1].st = "done" /\ pc[s1] = "use"
        /\ err[s2] = ErrFetch /\ wr[s2] = NoWrite


\* ------------------------------------------------ claims: arbiter shutdown

\* A caller dropped the receiver of its reply channel before a reply was
\* put on it.
ReplyDropped == \E c \in 1 .. nextChan : ~chans[c].rx /\ sentCount[c] = 0

\* C20: once every Sender of the request channel is dropped the worker
\* leaves its loop, and when it leaves it that way every queued request has
\* been scored; while a Sender is alive and no caller has dropped its reply
\* channel the worker does not leave its loop.
C20_Shutdown ==
    /\ (senders = 0) ~> (workerPc = "exited")
    /\ [](workerPc = "exited" =>
            \/ senders = 0 /\ reqChan = << >> /\ scoreLog = enqLog
            \/ ReplyDropped)

\* The worker left its loop after both callers were answered and dropped
\* their Sender.
C20_Witness ==
    /\ workerPc = "exited"
    /\ senders = 0
    /\ ~ReplyDropped
    /\ Len(scoreLog) = 2
    /\ \A s \in Sources : got[s] # << >>


\* ------------------------------------------------- claims: the cache files

\* The tasks of this run whose cache write has put its bytes in file k.
Writers(k) == {s \in Sources : Key(s) = k /\ wr[s].st = "done"}

\* C21 (as claimed): a cache file is written once: a file that was there
\* when the run started is written by no task, and a file that was not is
\* written by at most one, whatever urls are configured.
C21_WriteOnce ==
    \A k \in Keys :
        Cardinality(Writers(k)) <= (IF cacheAtStart[k] = Absent THEN 1 ELSE 0)


\* ------------------------------------------- claims: what a scraper reports

\* workday.rs:17-27  the page lacks something the Workday scraper needs: the
\* second path segment, the jobPostingHeader or the jobPostingDescription.
WorkdayLacks(s) ==
    \/ CompanyOf(url[s]) = << >>
    \/ html[s].header = << >>
    \/ html[s].desc = << >>

\* C22 (as claimed): when scrape_page has returned for a source whose host the
\* enabled Workday scraper matches and whose page lacks the header or the
\* description, the source's error list holds the scraper's error.
C22_FailedIsReported ==
    \A s \in Sources :
        (pc[s] = "scraped" /\ WorkdayName \in enabled /\ WorkdayApplies(s) /\ WorkdayLacks(s))
            => ScrapedErrors(s) # << >>


\* ------------------------------------------------ claims: the rayon pool

\* The task of source s has a job queued on the pool: its fetch, its
\* scrape_page or the job of use_page_data.
JobQueued(s) == pc[s] \in {"fetch", "scrape", "use"}

\* A job that holds a thread of the pool can take a step: the worker, or a
\* scrape job blocked in PendingKeywords::get.
HolderSteps ==
    ENABLED (WorkerInit \/ WorkerRecv \/ WorkerSend \/ \E t \in Sources : PendingGet(t))

\* C23 (as claimed): whatever the size of the pool, the worker does not keep
\* a queued job from running: while main runs, a job queued on the pool
\* finds a thread to take it, or a job that holds a thread can take a step.
C23_NoStall ==
    \A s \in Sources :
        (mainPc \in {"for", "join"} /\ JobQueued(s)) => (PoolFree \/ HolderSteps)


\* ----------------------------------------------- claims: a failed fetch

\* A task other than s has written the cache file of the url of s.
WrittenByOther(s) == \E t \in Sources : t # s /\ Key(t) = Key(s) /\ wr[t].st = "done"

\* C24: a task whose navigation failed is Failed; it fetched once, kept no
\* page, ran no scraper, sent no request to the worker, handed nothing to
\* use_page_data and spawned no cache write, and the cache file of its url,
\* which was not there when the run started, is still not there unless a task
\* with the same url wrote it. In every run a task reads the cache only when
\* the file is there, so the next run fetches that url again.
C24_FetchFailure ==
    \A s \in Sources :
        /\ err[s] = ErrFetch =>
              /\ pc[s] = "failed"
              /\ fetched[s] = 1
              /\ html[s] = NoPage
              /\ myChan[s] = 0 /\ myReq[s] = << >> /\ got[s] = << >>
              /\ emitted[s] = << >>
              /\ wr[s] = NoWrite
              /\ cacheAtStart[Key(s)] = Absent
              /\ (~WrittenByOther(s) => cache[Key(s)] = Absent)
        /\ pc[s] = "hit_read" => cache[Key(s)] # Absent

\* A fetch failed in the second run, after a first run that returned an error
\* and left no cache file for that url; main has returned the fetch error and
\* there is still no cache file.
C24_Witness ==
    \E s \in Sources :
        /\ run = 2 /\ ~prevOk
        /\ err[s] = ErrFetch
        /\ mainPc = "exit_err" /\ mainErr = ErrFetch
        /\ cache[Key(s)] = Absent


\* ------------------------------------- claims: scrapers that give no data

\* The task of source s has the page: its navigation succeeded.
FetchSucceeded(s) == fetched[s] = 1 /\ err[s] # ErrFetch /\ pc[s] # "fetch"

\* The task of source s ended after scrape_page gave it no PageData.
EndedWithNoData(s) == FetchSucceeded(s) /\ pc[s] = "done" /\ emitted[s] = << >>

\* C25 (as claimed): a task that has the page never ends with a panic of a
\* scraper; a task that ended with no PageData spawned the write of the
\* "no data" cache file; and when main returns Ok the cache file of such a
\* task is there and holds "no data", so that the next run reads it.
C25_ErrorsCachedAsNoData ==
    \A s \in Sources :
        /\ FetchSucceeded(s) => (pc[s] # "panicked" /\ err[s] # ErrPanic)
        /\ EndedWithNoData(s) => (wr[s].st # "none" /\ wr[s].bytes = Tombstone)
        /\ (mainPc = "exit_ok" /\ EndedWithNoData(s)) => cache[Key(s)] = File(Tombstone)

====
